---- MODULE Spec2Model ----
(***************************************************************************)
(* ArchiShield - Vienna Spot-Audit.  A model of the multi-domain audit     *)
(* engine: the six rule evaluators (Zoning, Heritage, Subsurface, Climate, *)
(* Seismic, WindLoad), the spatial helpers they call, and the aggregation  *)
(* done by executeAllAudits in hooks/useSpotAudit.js.                      *)
(*                                                                         *)
(* Units.  Coordinates are integers in 1e-5 degree (48.2084 is 4820840),   *)
(* heights, depths and radii are metres, distances returned by getDistance *)
(* are centimetres (the code's doubles are metres; Math.round(d) is        *)
(* RoundM(d)), scores are integers except for the structural half point,   *)
(* which the aggregation keeps by working on doubled totals.               *)
(***************************************************************************)
EXTENDS Integers, Sequences, FiniteSets, TLC

VARIABLES building, context, features, audits, result, pc,
          buildingConfig, lastAuditContext, isLoading, runs, calls

\* the state of the useSpotAudit hook: the buildingConfig state, the
\* lastAuditContext ref, the isLoading state and the runSpotAudit calls in
\* flight, with calls counting the calls made to the hook so far; its
\* results state is the variable result
hookVars == <<buildingConfig, lastAuditContext, isLoading, runs, calls>>

vars == <<building, context, features, audits, result, pc,
          buildingConfig, lastAuditContext, isLoading, runs, calls>>

(***************************************************************************)
(* Arithmetic helpers (Math.abs, Math.max, Math.min, Math.sqrt).           *)
(***************************************************************************)
Abs(x) == IF x < 0 THEN -x ELSE x

Max2(a, b) == IF a >= b THEN a ELSE b

Min2(a, b) == IF a <= b THEN a ELSE b

RECURSIVE SqrtIter(_, _)
SqrtIter(n, x) ==
    LET y == (x + n \div x) \div 2
    IN  IF y >= x THEN x ELSE SqrtIter(n, y)

\* floor(sqrt(n)) by Newton's iteration
ISqrt(n) == IF n <= 0 THEN 0 ELSE SqrtIter(n, n)

(***************************************************************************)
(* services/spatial.js : SpatialUtils.getDistance.                         *)
(* The haversine formula a = sin^2(dphi/2) + cos(phi1) cos(phi2)           *)
(* sin^2(dlambda/2), d = R * 2 * atan2(sqrt a, sqrt(1 - a)) with           *)
(* R = 6371000 m.  At the separations of one city (a few kilometres) this  *)
(* is R * sqrt(dphi^2 + cos(phi1) cos(phi2) dlambda^2) to well below a     *)
(* centimetre; the model evaluates that form in fixed point.               *)
(***************************************************************************)
\* centimetres of great-circle arc per 1e-5 degree, times 1000
\* (R * pi / 180 * 1e-5 m = 1.11195 m)
ArcCmPerUnitE3 == 111195

\* Math.cos(phi) * 1e6, expanded around 48.2 degrees (4820000):
\* cos(48.2 deg) = 0.666532, d cos / d lat = -sin(48.2 deg) * pi / 180 * 1e-5
\* = -1.3011e-7 per 1e-5 degree
CosE6(lat) == 666532 - ((lat - 4820000) * 13011) \div 100000

\* sqrt(cos(phi1) * cos(phi2)) * 1e6: the two cosines differ by less than
\* 0.1 percent, so their geometric mean is their arithmetic mean
CosPairE6(lat1, lat2) == (CosE6(lat1) + CosE6(lat2)) \div 2

\* north-south separation, cm
NorthCm(lat1, lat2) == (Abs(lat2 - lat1) * ArcCmPerUnitE3) \div 1000

\* east-west separation, cm
EastCm(lat1, lon1, lat2, lon2) ==
    LET base == (Abs(lon2 - lon1) * ArcCmPerUnitE3) \div 1000
        c    == CosPairE6(lat1, lat2)
    IN  (base * (c \div 1000)) \div 1000 + (base * (c % 1000)) \div 1000000

\* sqrt(dx^2 + dy^2) in cm.  The squares must add within 32-bit integers, so
\* the resolution is 1 cm while both legs are below 320 m (every threshold of
\* the audits lies there: 30, 50, 100, 150, 200, 300 m), 10 cm below 3.2 km
\* and 1 m beyond.  Against the double-precision haversine the result is
\* within 4 cm in the first range.
Hypot(dx, dy) ==
    IF dx <= 32000 /\ dy <= 32000
    THEN ISqrt(dx * dx + dy * dy)
    ELSE IF dx <= 320000 /\ dy <= 320000
    THEN 10 * ISqrt((dx \div 10) * (dx \div 10) + (dy \div 10) * (dy \div 10))
    ELSE 100 * ISqrt((dx \div 100) * (dx \div 100) + (dy \div 100) * (dy \div 100))

\* the distance with Math.cos(phi1) squared in place of
\* Math.cos(phi1) * Math.cos(phi2): the first point's latitude alone scales
\* the east-west leg
getDistanceFirstCosine(lat1, lon1, lat2, lon2) ==
    Hypot(EastCm(lat1, lon1, lat1, lon2), NorthCm(lat1, lat2))

\* getDistance(lat1, lon1, lat2, lon2), in centimetres
getDistance(lat1, lon1, lat2, lon2) ==
    Hypot(EastCm(lat1, lon1, lat2, lon2), NorthCm(lat1, lat2))

\* Math.round of a distance in metres (half rounds up)
RoundM(dCm) == (dCm + 50) \div 100


(***************************************************************************)
(* services/spatial.js : isPointInPolygon (ray casting over one ring).     *)
(* A ring is a sequence of <<lng, lat>> vertices; a point is <<lng, lat>>. *)
(***************************************************************************)
\* intersect = ((yi > y) !== (yj > y)) && (x < (xj - xi) * (y - yi) / (yj - yi) + xi)
\* The quotient is cleared by multiplying with (yj - yi), whose sign turns
\* the comparison; yj = yi never reaches it (the first conjunct is false).
EdgeCrossed(x, y, xi, yi, xj, yj) ==
    /\ (yi > y) # (yj > y)
    /\ IF yj > yi
       THEN (x - xi) * (yj - yi) < (xj - xi) * (y - yi)
       ELSE (x - xi) * (yj - yi) > (xj - xi) * (y - yi)

\* for (i = 0, j = ring.length - 1; i < ring.length; j = i++): inside flips
\* once per crossed edge, so it is the parity of the crossed edges
isPointInPolygon(point, ring) ==
    LET n == Len(ring)
        crossed == { i \in 1..n :
                       LET j == IF i = 1 THEN n ELSE i - 1
                       IN  EdgeCrossed(point[1], point[2],
                                       ring[i][1], ring[i][2],
                                       ring[j][1], ring[j][2]) }
    IN  Cardinality(crossed) % 2 = 1

(***************************************************************************)
(* services/spatial.js : countFeaturesInRadius and getNeighborhoodStats.   *)
(* A feature is [lat, lng, height]: the first vertex of its geometry and   *)
(* properties.height.                                                      *)
(***************************************************************************)
\* Math.abs(c - p) > degRadius with degRadius = radius / 111000 degrees;
\* in 1e-5 degree: |c - p| * 111 > radius * 100
BeyondDegRadius(c, p, radius) == Abs(c - p) * 111 > radius * 100

\* the feature passes both bounding-box tests and the exact distance test
FeatureInRadius(point, f, radius) ==
    /\ ~BeyondDegRadius(f.lat, point.lat, radius)
    /\ ~BeyondDegRadius(f.lng, point.lng, radius)
    /\ getDistance(point.lat, point.lng, f.lat, f.lng) <= radius * 100

countFeaturesInRadius(point, feats, radius) ==
    Cardinality({ i \in DOMAIN feats : FeatureInRadius(point, feats[i], radius) })

RECURSIVE SumHeights(_, _)
SumHeights(feats, idx) ==
    IF idx = {} THEN 0
    ELSE LET i == CHOOSE k \in idx : TRUE
         IN  feats[i].height + SumHeights(feats, idx \ {i})

RECURSIVE MaxHeightOf(_, _)
MaxHeightOf(feats, idx) ==
    IF idx = {} THEN 0
    ELSE LET i == CHOOSE k \in idx : TRUE
         IN  Max2(feats[i].height, MaxHeightOf(feats, idx \ {i}))

\* Math.round(n / d) for n >= 0, d > 0
RoundDiv(n, d) == (2 * n + d) \div (2 * d)

\* { avgHeight, maxHeight, count } (the nearest-10 list is not read by any
\* evaluator and is left out)
getNeighborhoodStats(point, feats, radius) ==
    LET idx == { i \in DOMAIN feats : FeatureInRadius(point, feats[i], radius) }
        n   == Cardinality(idx)
    IN  IF n = 0
        THEN [avgHeight |-> 0, maxHeight |-> 0, count |-> 0]
        ELSE [avgHeight |-> RoundDiv(SumHeights(feats, idx), n),
              maxHeight |-> MaxHeightOf(feats, idx),
              count     |-> n]

(***************************************************************************)
(* hooks/useSpotAudit.js, audits/zoning.js, audits/climate2036.js :        *)
(* detectDistrict (three copies of the same function).                     *)
(***************************************************************************)
\* the value of "return null"
NoDistrict == 0

detectDistrict(lat, lng) ==
    IF lat >= 4820000 /\ lat <= 4822000 /\ lng >= 1635500 /\ lng <= 1638500 THEN 1
    ELSE IF lat >= 4820500 /\ lat <= 4823500 /\ lng >= 1638500 /\ lng <= 1642000 THEN 2
    ELSE IF lat >= 4819500 /\ lat <= 4821500 /\ lng >= 1633500 /\ lng <= 1636000 THEN 7
    ELSE NoDistrict

\* `${district}` in a template string
DistrictStr(d) == IF d = NoDistrict THEN "null" ELSE ToString(d)

\* context.district || fallback
DistrictOr(d, fallback) == IF d = NoDistrict THEN fallback ELSE d

(***************************************************************************)
(* A constraint is [type, severity, message]; the evaluator-specific data  *)
(* fields (limit, actual, distance, ...) repeat what the message says and  *)
(* are not read by the aggregation.                                        *)
(***************************************************************************)
Constraint(t, sev, msg) == [type |-> t, severity |-> sev, message |-> msg]

\* results.score = Math.max(0, results.score)
ClampScore(s) == Max2(0, s)

(***************************************************************************)
(* services/audits/zoning.js                                               *)
(***************************************************************************)
\* far is kept in tenths
BAUKLASSE ==
    [ I   |-> [class |-> "I",   maxHeight |-> 9,  maxFloors |-> 2,  far10 |-> 10],
      II  |-> [class |-> "II",  maxHeight |-> 12, maxFloors |-> 3,  far10 |-> 13],
      III |-> [class |-> "III", maxHeight |-> 16, maxFloors |-> 4,  far10 |-> 15],
      IV  |-> [class |-> "IV",  maxHeight |-> 21, maxFloors |-> 6,  far10 |-> 20],
      V   |-> [class |-> "V",   maxHeight |-> 26, maxFloors |-> 7,  far10 |-> 25],
      VI  |-> [class |-> "VI",  maxHeight |-> 35, maxFloors |-> 10, far10 |-> 30] ]

\* in the order of Object.entries
SCHUTZZONEN ==
    << [id |-> "district1_core", name |-> "Innere Stadt Core Protection",
        polygon |-> << <<1635500, 4820500>>, <<1638500, 4820500>>,
                       <<1638500, 4821500>>, <<1635500, 4821500>> >>],
       [id |-> "district7_spittelberg", name |-> "Spittelberg Historic Quarter",
        polygon |-> << <<1634800, 4820200>>, <<1635800, 4820200>>,
                       <<1635800, 4820800>>, <<1634800, 4820800>> >>] >>

\* DISTRICT_ZONES[district] || { default: 'III' }, its .default
RegulatoryClass(district) ==
    IF district = 1 THEN "IV"
    ELSE IF district = 2 THEN "III"
    ELSE IF district = 7 THEN "IV"
    ELSE "III"

getSuggestedBauklasse(avgHeight) ==
    IF avgHeight <= 9 THEN "I"
    ELSE IF avgHeight <= 12 THEN "II"
    ELSE IF avgHeight <= 16 THEN "III"
    ELSE IF avgHeight <= 21 THEN "IV"
    ELSE IF avgHeight <= 26 THEN "V"
    ELSE "VI"

\* Math.round(maxHeight * 0.95) for an integer maxHeight: the product is a
\* multiple of 0.05 and Math.round takes a half upwards
Round95(maxHeight) == (maxHeight * 19 + 10) \div 20

\* results.contextualLimit = Math.round(Math.max(...contextBaselines)); the
\* two class limits are integers, so rounding the maximum rounds only the
\* neighbourhood term
ContextualLimit(regMax, sugMax, nbMax) ==
    IF nbMax > 0
    THEN Max2(Max2(regMax, sugMax), Round95(nbMax))
    ELSE Max2(regMax, sugMax)

\* the index of the first protection zone holding the point, 0 if none
\* (the loop breaks at the first hit)
FirstSchutzzone(lng, lat) ==
    LET hits == { i \in DOMAIN SCHUTZZONEN :
                    isPointInPolygon(<<lng, lat>>, SCHUTZZONEN[i].polygon) }
    IN  IF hits = {} THEN 0 ELSE CHOOSE i \in hits : \A k \in hits : i <= k

\* variant: no variance branch, every excess height is a violation
ZoningHeightCheckSevere(height, district, regClass, regMax, ctxLimit) ==
    IF height > regMax
    THEN [delta |-> 40,
          constraints |-> << Constraint("HEIGHT_VIOLATION", "critical",
              "Height (" \o ToString(height) \o "m) exceeds both regulatory Bauklasse "
              \o regClass \o " (" \o ToString(regMax) \o "m) and contextual scale ("
              \o ToString(ctxLimit) \o "m).") >>]
    ELSE [delta |-> 0, constraints |-> << >>]

\* the height branch of ZoningAudit.execute: score delta and constraints
ZoningHeightCheck(height, district, regClass, regMax, ctxLimit) ==
    IF height > regMax
    THEN IF height <= ctxLimit
         THEN [delta |-> 15,
               constraints |-> << Constraint("HEIGHT_VARIANCE_OPPORTUNITY", "important",
                   "Building height (" \o ToString(height) \o "m) exceeds District "
                   \o DistrictStr(district) \o " default (" \o ToString(regMax)
                   \o "m), but aligns with neighborhood fabric (" \o ToString(ctxLimit)
                   \o "m). High variance potential.") >>]
         ELSE [delta |-> 40,
               constraints |-> << Constraint("HEIGHT_VIOLATION", "critical",
                   "Height (" \o ToString(height) \o "m) exceeds both regulatory Bauklasse "
                   \o regClass \o " (" \o ToString(regMax) \o "m) and contextual scale ("
                   \o ToString(ctxLimit) \o "m).") >>]
    ELSE [delta |-> 0, constraints |-> << >>]

ZoningAuditExecute(b, ctx) ==
    LET district  == DistrictOr(ctx.district, detectDistrict(b.latitude, b.longitude))
        regClass  == RegulatoryClass(district)
        regSpec   == BAUKLASSE[regClass]
        nb        == ctx.neighborhood
        sugClass  == getSuggestedBauklasse(IF nb.avgHeight = 0 THEN regSpec.maxHeight
                                           ELSE nb.avgHeight)
        sugSpec   == BAUKLASSE[sugClass]
        ctxLimit  == ContextualLimit(regSpec.maxHeight, sugSpec.maxHeight, nb.maxHeight)
        hc        == ZoningHeightCheck(b.height, district, regClass,
                                       regSpec.maxHeight, ctxLimit)
        floorsOver == b.floors > regSpec.maxFloors
        floorC    == IF floorsOver
                     THEN << Constraint("FLOOR_WARNING", "warning",
                              ToString(b.floors) \o " floors exceeds typical for Bauklasse "
                              \o regClass \o " (" \o ToString(regSpec.maxFloors) \o " floors)") >>
                     ELSE << >>
        zone      == FirstSchutzzone(b.longitude, b.latitude)
        zoneC     == IF zone # 0
                     THEN << Constraint("SCHUTZZONE", "important",
                              "Located in " \o SCHUTZZONEN[zone].name
                              \o " - special approvals required") >>
                     ELSE << >>
        cs        == hc.constraints \o floorC \o zoneC
        score     == 100 - hc.delta - (IF floorsOver THEN 20 ELSE 0)
                         - (IF zone # 0 THEN 10 ELSE 0)
    IN  [ passed      |-> ~(b.height > regSpec.maxHeight),
          score       |-> ClampScore(score),
          bauklasse   |-> regSpec,
          schutzzone  |-> IF zone = 0 THEN "null" ELSE SCHUTZZONEN[zone].id,
          neighborhood |-> nb,
          suggestedBauklasse |-> sugSpec,
          contextualLimit |-> ctxLimit,
          canUpgradeBauklasse |-> sugSpec.maxHeight > regSpec.maxHeight,
          constraints |-> cs,
          recommendations |->
              IF Len(cs) = 0
              THEN << "Zoning clear - proceed to pre-submission meeting" >>
              ELSE << "Consult MA 21 for zoning variance application" >>
                   \o (IF zone # 0 THEN << "Contact MA 19 for heritage assessment" >>
                       ELSE << >>) ]

(***************************************************************************)
(* services/audits/heritage.js                                             *)
(***************************************************************************)
UNESCO_BUFFER ==
    [ core |-> << <<1635500, 4820000>>, <<1639000, 4820000>>,
                  <<1639000, 4822000>>, <<1635500, 4822000>> >>,
      heightLimit |-> 43,
      landmarks |-> <<
        [name |-> "St. Stephen's Cathedral", lat |-> 4820840, lng |-> 1637310,
         protectionRadius |-> 200],
        [name |-> "Hofburg Palace", lat |-> 4820640, lng |-> 1636590,
         protectionRadius |-> 300],
        [name |-> "Vienna State Opera", lat |-> 4820360, lng |-> 1636920,
         protectionRadius |-> 150] >> ]

\* variant: the 43 m violation pushes its blocking constraint and leaves
\* passed as it was
HeritageUnescoCheckPassing(lng, lat, height) ==
    IF isPointInPolygon(<<lng, lat>>, UNESCO_BUFFER.core)
    THEN LET zoneC == Constraint("UNESCO_BUFFER", "critical",
                        "Located within UNESCO World Heritage buffer zone")
         IN  IF height > UNESCO_BUFFER.heightLimit
             THEN [unescoZone |-> TRUE, passed |-> TRUE, delta |-> 50,
                   constraints |-> << zoneC,
                     Constraint("UNESCO_HEIGHT_VIOLATION", "blocking",
                       "Height " \o ToString(height)
                       \o "m violates UNESCO 43m limit - AUTOMATIC REJECTION") >>]
             ELSE [unescoZone |-> TRUE, passed |-> TRUE, delta |-> 0,
                   constraints |-> << zoneC >>]
    ELSE [unescoZone |-> FALSE, passed |-> TRUE, delta |-> 0, constraints |-> << >>]

\* the UNESCO block of HeritageAudit.execute: zone flag, pass flag, score
\* delta and the constraints it pushes, in order
HeritageUnescoCheck(lng, lat, height) ==
    IF isPointInPolygon(<<lng, lat>>, UNESCO_BUFFER.core)
    THEN LET zoneC == Constraint("UNESCO_BUFFER", "critical",
                        "Located within UNESCO World Heritage buffer zone")
         IN  IF height > UNESCO_BUFFER.heightLimit
             THEN [unescoZone |-> TRUE, passed |-> FALSE, delta |-> 50,
                   constraints |-> << zoneC,
                     Constraint("UNESCO_HEIGHT_VIOLATION", "blocking",
                       "Height " \o ToString(height)
                       \o "m violates UNESCO 43m limit - AUTOMATIC REJECTION") >>]
             ELSE IF height > 35
             THEN [unescoZone |-> TRUE, passed |-> TRUE, delta |-> 15,
                   constraints |-> << zoneC,
                     Constraint("HEIGHT_REVIEW", "warning",
                       "Height " \o ToString(height)
                       \o "m requires enhanced heritage review (>35m)") >>]
             ELSE [unescoZone |-> TRUE, passed |-> TRUE, delta |-> 0,
                   constraints |-> << zoneC >>]
    ELSE [unescoZone |-> FALSE, passed |-> TRUE, delta |-> 0, constraints |-> << >>]

\* distance < landmark.protectionRadius
LandmarkNear(lat, lng, lm) ==
    getDistance(lat, lng, lm.lat, lm.lng) < lm.protectionRadius * 100

\* the landmark loop: one constraint per landmark within its radius, in the
\* order of UNESCO_BUFFER.landmarks
RECURSIVE LandmarkConstraints(_, _, _)
LandmarkConstraints(lat, lng, i) ==
    IF i > Len(UNESCO_BUFFER.landmarks) THEN << >>
    ELSE LET lm == UNESCO_BUFFER.landmarks[i]
         IN  (IF LandmarkNear(lat, lng, lm)
              THEN << Constraint("LANDMARK_PROXIMITY", "important",
                        ToString(RoundM(getDistance(lat, lng, lm.lat, lm.lng)))
                        \o "m from " \o lm.name \o " - design review required") >>
              ELSE << >>)
             \o LandmarkConstraints(lat, lng, i + 1)

\* variant: one 10-point penalty however many landmarks are near
HeritageScoreOnce(unescoDelta, nLandmarks) ==
    100 - unescoDelta - (IF nLandmarks > 0 THEN 10 ELSE 0)

\* variant: the landmark penalty added instead of subtracted
HeritageScorePlus(unescoDelta, nLandmarks) == 100 - unescoDelta + 10 * nLandmarks

\* results.score after the UNESCO block (-= 50 or -= 15) and the landmark
\* loop (-= 10 for every landmark within its radius), before the clamp
HeritageScore(unescoDelta, nLandmarks) == 100 - unescoDelta - 10 * nLandmarks

HeritageAuditExecute(b, ctx) ==
    LET district == DistrictOr(ctx.district, 1)
        u        == HeritageUnescoCheck(b.longitude, b.latitude, b.height)
        lmC      == LandmarkConstraints(b.latitude, b.longitude, 1)
        d1C      == IF district = 1
                    THEN << Constraint("DISTRICT_1_PROTOCOL", "info",
                      "District 1 requires MA 19 preliminary consultation before submission") >>
                    ELSE << >>
        score    == HeritageScore(u.delta, Len(lmC))
    IN  [ passed      |-> u.passed,
          score       |-> ClampScore(score),
          unescoZone  |-> u.unescoZone,
          heightLimit |-> IF u.unescoZone THEN UNESCO_BUFFER.heightLimit ELSE 0,
          landmarks   |-> Len(lmC),
          constraints |-> u.constraints \o lmC \o d1C,
          recommendations |->
              (IF u.unescoZone
               THEN << "Engage heritage architect for facade design",
                       "Prepare visual impact study with 3D renderings" >>
               ELSE << >>)
              \o (IF Len(lmC) > 0
                  THEN << "Commission independent heritage impact assessment" >>
                  ELSE << >>)
              \o (IF u.passed
                  THEN << "Heritage constraints manageable with proper documentation" >>
                  ELSE << >>) ]

(***************************************************************************)
(* services/audits/subsurface.js                                           *)
(***************************************************************************)
\* the stations in the order the two nested loops visit them
\* (Object.entries(UBAHN_LINES), then line.stations)
UBAHN_STATIONS ==
    << [line |-> "U1", station |-> "Stephansplatz", lat |-> 4820840, lng |-> 1637250, tunnelDepth |-> 20],
       [line |-> "U1", station |-> "Schwedenplatz", lat |-> 4821200, lng |-> 1637750, tunnelDepth |-> 20],
       [line |-> "U1", station |-> "Praterstern",   lat |-> 4821890, lng |-> 1639170, tunnelDepth |-> 20],
       [line |-> "U2", station |-> "Rathaus",       lat |-> 4821070, lng |-> 1635650, tunnelDepth |-> 15],
       [line |-> "U2", station |-> "Schottentor",   lat |-> 4821540, lng |-> 1636110, tunnelDepth |-> 15],
       [line |-> "U2", station |-> "Praterstern",   lat |-> 4821890, lng |-> 1639170, tunnelDepth |-> 15],
       [line |-> "U3", station |-> "Stephansplatz", lat |-> 4820840, lng |-> 1637250, tunnelDepth |-> 18],
       [line |-> "U3", station |-> "Herrengasse",   lat |-> 4821070, lng |-> 1636580, tunnelDepth |-> 18],
       [line |-> "U3", station |-> "Volkstheater",  lat |-> 4820520, lng |-> 1635890, tunnelDepth |-> 18],
       [line |-> "U4", station |-> "Schwedenplatz", lat |-> 4821200, lng |-> 1637750, tunnelDepth |-> 12],
       [line |-> "U4", station |-> "Landstrasse",   lat |-> 4820630, lng |-> 1638680, tunnelDepth |-> 12],
       [line |-> "U4", station |-> "Karlsplatz",    lat |-> 4820070, lng |-> 1636920, tunnelDepth |-> 12] >>

THRESHOLDS == [critical |-> 30, restricted |-> 50, monitoring |-> 100, clear |-> 150]

\* the initial results.nearestDistance
Infinity == 2147483647

\* distance < results.nearestDistance, a double against the stored metres
NearerThan(dCm, nearestM) == nearestM = Infinity \/ dCm < nearestM * 100

\* the search loop: results.nearestDistance is overwritten with
\* Math.round(distance), and the next station is compared with that
RECURSIVE NearestScan(_, _, _, _)
NearestScan(lat, lng, i, acc) ==
    IF i > Len(UBAHN_STATIONS) THEN acc
    ELSE LET st == UBAHN_STATIONS[i]
             d  == getDistance(lat, lng, st.lat, st.lng)
         IN  NearestScan(lat, lng, i + 1,
                 IF NearerThan(d, acc.nearestDistance)
                 THEN [nearestDistance |-> RoundM(d), nearestLine |-> i]
                 ELSE acc)

\* the proximity band of SubsurfaceAudit.execute
SubsurfaceBand(dist, lineName) ==
    IF dist < THRESHOLDS.critical
    THEN [passed |-> FALSE, delta |-> 50,
          constraints |-> << Constraint("TUNNEL_CRITICAL", "blocking",
              ToString(dist) \o "m from " \o lineName
              \o " tunnel - CONSTRUCTION BAN without Wiener Linien approval") >>]
    ELSE IF dist < THRESHOLDS.restricted
    THEN [passed |-> TRUE, delta |-> 30,
          constraints |-> << Constraint("TUNNEL_RESTRICTED", "critical",
              ToString(dist) \o "m from " \o lineName
              \o " - Enhanced structural assessment required") >>]
    ELSE IF dist < THRESHOLDS.monitoring
    THEN [passed |-> TRUE, delta |-> 10,
          constraints |-> << Constraint("TUNNEL_MONITORING", "warning",
              ToString(dist) \o "m from " \o lineName
              \o " - Vibration monitoring required during construction") >>]
    ELSE [passed |-> TRUE, delta |-> 0, constraints |-> << >>]

\* variant: the margin of the recommendation, tunnelDepth - 8
DepthConflictWideMargin(nearestLine, basementDepth) ==
    /\ nearestLine # 0
    /\ basementDepth > 0
    /\ basementDepth > UBAHN_STATIONS[nearestLine].tunnelDepth - 8

\* the basement block: results.nearestLine && basementDepth > 0, then
\* basementDepth > tunnelDepth - 5
DepthConflict(nearestLine, basementDepth) ==
    /\ nearestLine # 0
    /\ basementDepth > 0
    /\ basementDepth > UBAHN_STATIONS[nearestLine].tunnelDepth - 5

SubsurfaceAuditExecute(b, ctx) ==
    LET scan  == NearestScan(b.latitude, b.longitude, 1,
                             [nearestDistance |-> Infinity, nearestLine |-> 0])
        dist  == scan.nearestDistance
        st    == UBAHN_STATIONS[scan.nearestLine]
        band  == SubsurfaceBand(dist, st.line)
        deep  == DepthConflict(scan.nearestLine, b.basementDepth)
        deepC == IF deep
                 THEN << Constraint("DEPTH_CONFLICT", "critical",
                           "Basement depth " \o ToString(b.basementDepth)
                           \o "m may conflict with tunnel at "
                           \o ToString(st.tunnelDepth) \o "m") >>
                 ELSE << >>
        score == 100 - band.delta - (IF deep THEN 20 ELSE 0)
    IN  [ passed          |-> band.passed,
          score           |-> ClampScore(score),
          nearestLine     |-> [name |-> st.line, station |-> st.station,
                               tunnelDepth |-> st.tunnelDepth],
          nearestDistance |-> dist,
          constraints     |-> band.constraints \o deepC,
          recommendations |->
              (IF dist < THRESHOLDS.monitoring
               THEN << "Engage Wiener Linien for pre-construction consultation",
                       "Install vibration monitoring equipment" >>
               ELSE << >>)
              \o (IF dist < THRESHOLDS.restricted
                  THEN << "Commission independent geotechnical assessment",
                          "Consider pile foundation alternatives" >>
                  ELSE << >>)
              \o (IF dist >= THRESHOLDS.clear
                  THEN << "No subsurface constraints - standard foundation permissible" >>
                  ELSE << >>) ]

(***************************************************************************)
(* services/audits/climate2036.js                                          *)
(***************************************************************************)
HQ100_ZONE ==
    [ name |-> "Donaukanal HQ100",
      polygon |-> << <<1637500, 4821000>>, <<1640000, 4821000>>,
                     <<1640000, 4822500>>, <<1637500, 4822500>> >>,
      minimumElevation10 |-> 25,   \* 2.5 m, in tenths
      districts |-> {2} ]

CLIMATE_CODE ==
    [ maxSurfaceSeal |-> 80, greenRoofThreshold |-> 500, solarThreshold |-> 250,
      facadeGreeningTrigger |-> 60 ]

\* Math.sqrt(dlat^2 + dlng^2) * 111 < km, the offsets in degrees: with s the
\* sum of the squared offsets in 1e-5 degree, s < km^2 * (100000 / 111)^2
\* = km^2 * 811622.43
UhiWithinKm(s, km) == s <= (km * km * 81162243) \div 100

\* calculateUHIIntensity: category and intensity in tenths of a degree
calculateUHIIntensity(lat, lng) ==
    LET s == (lat - 4820820) * (lat - 4820820) + (lng - 1637380) * (lng - 1637380)
    IN  IF UhiWithinKm(s, 1) THEN [category |-> "extreme", intensity10 |-> 45]
        ELSE IF UhiWithinKm(s, 2) THEN [category |-> "high", intensity10 |-> 30]
        ELSE IF UhiWithinKm(s, 4) THEN [category |-> "moderate", intensity10 |-> 15]
        ELSE [category |-> "low", intensity10 |-> 5]

\* a number kept in tenths, printed the way a template string prints it
Tenths(t) == IF t % 10 = 0 THEN ToString(t \div 10)
             ELSE ToString(t \div 10) \o "." \o ToString(t % 10)

\* variant: the 70% test ahead of the 80% test
ClimateSealCheckSoftFirst(surfaceSeal) ==
    IF surfaceSeal > 70
    THEN [passed |-> TRUE, delta |-> 15,
          constraints |-> << Constraint("HIGH_SEAL", "warning",
              "Surface seal " \o ToString(surfaceSeal)
              \o "% requires enhanced greening measures") >>]
    ELSE IF surfaceSeal > CLIMATE_CODE.maxSurfaceSeal
    THEN [passed |-> FALSE, delta |-> 50,
          constraints |-> << Constraint("SURFACE_SEAL_EXCEEDED", "blocking",
              "Surface seal " \o ToString(surfaceSeal)
              \o "% exceeds 80% limit - AUTOMATIC REJECTION") >>]
    ELSE [passed |-> TRUE, delta |-> 0, constraints |-> << >>]

\* 1. the surface-seal check
ClimateSealCheck(surfaceSeal) ==
    IF surfaceSeal > CLIMATE_CODE.maxSurfaceSeal
    THEN [passed |-> FALSE, delta |-> 50,
          constraints |-> << Constraint("SURFACE_SEAL_EXCEEDED", "blocking",
              "Surface seal " \o ToString(surfaceSeal)
              \o "% exceeds 80% limit - AUTOMATIC REJECTION") >>]
    ELSE IF surfaceSeal > 70
    THEN [passed |-> TRUE, delta |-> 15,
          constraints |-> << Constraint("HIGH_SEAL", "warning",
              "Surface seal " \o ToString(surfaceSeal)
              \o "% requires enhanced greening measures") >>]
    ELSE [passed |-> TRUE, delta |-> 0, constraints |-> << >>]

Mandate(t, d) == [type |-> t, description |-> d]

Climate2036AuditExecute(b, ctx) ==
    LET district == DistrictOr(ctx.district, detectDistrict(b.latitude, b.longitude))
        seal     == ClimateSealCheck(b.surfaceSeal)
        uhi      == calculateUHIIntensity(b.latitude, b.longitude)
        hot      == uhi.category = "extreme" \/ uhi.category = "high"
        flood    == district = 2
                    /\ isPointInPolygon(<<b.longitude, b.latitude>>, HQ100_ZONE.polygon)
        low      == flood /\ b.groundElevation * 10 < HQ100_ZONE.minimumElevation10
        green    == b.footprint >= CLIMATE_CODE.greenRoofThreshold /\ ~b.hasGreenRoof
        solar    == b.roofArea >= CLIMATE_CODE.solarThreshold /\ ~b.hasSolarPanels
        score    == 100 - seal.delta
                        - (IF hot THEN 10 ELSE 0)
                        - (IF low THEN 25 ELSE 0)
                        - (IF green THEN 10 ELSE 0)
                        - (IF solar THEN 5 ELSE 0)
    IN  [ passed       |-> seal.passed,
          score        |-> ClampScore(score),
          uhiIntensity |-> uhi,
          floodZone    |-> flood,
          constraints  |->
              seal.constraints
              \o (IF hot
                  THEN << Constraint("UHI_HOTSPOT", "important",
                            "Located in " \o uhi.category \o " UHI zone (+"
                            \o Tenths(uhi.intensity10) \o " C)") >>
                  ELSE << >>)
              \o (IF flood
                  THEN << Constraint("HQ100_FLOOD_ZONE", "critical",
                            "Located in HQ100 flood zone - elevated ground floor required") >>
                  ELSE << >>),
          mandates     |->
              (IF hot THEN << Mandate("FACADE_GREENING", "Facade greening required") >>
               ELSE << >>)
              \o (IF low
                  THEN << Mandate("FLOOD_ELEVATION", "Ground floor must be "
                            \o Tenths(HQ100_ZONE.minimumElevation10) \o "m above grade") >>
                  ELSE << >>)
              \o (IF green
                  THEN << Mandate("GREEN_ROOF", "Green roof required ("
                            \o ToString(RoundDiv(b.roofArea * 7, 10)) \o "sqm minimum)") >>
                  ELSE << >>)
              \o (IF solar
                  THEN << Mandate("SOLAR_INSTALLATION", "Solar panels required ("
                            \o ToString(RoundDiv(b.roofArea * 2, 10)) \o "sqm / 20% of roof)") >>
                  ELSE << >>)
              \o << Mandate("WATER_RETENTION", "Rainwater retention system: "
                      \o Tenths(RoundDiv(b.roofArea * 5, 10)) \o "m3 capacity") >>,
          recommendations |->
              (IF b.surfaceSeal > 60
               THEN << "Consider permeable paving for walkways" >> ELSE << >>)
              \o (IF uhi.category = "extreme"
                  THEN << "Use high-albedo roofing materials (SRI > 78)" >> ELSE << >>)
              \o (IF flood
                  THEN << "Install backflow prevention on all drainage" >> ELSE << >>) ]

(***************************************************************************)
(* services/audits/seismic.js : SeismicAudit (material-aware)              *)
(***************************************************************************)
\* the zone test lng < 16.35: TRUE on bedrock (Flysch), FALSE in the basin
OnBedrock(lng) == lng < 1635000

\* score and requirements of the structural integrity check; status is
\* never reassigned, it stays 'PASSED'
SeismicAuditExecute(b) ==
    LET bedrock == OnBedrock(b.lng)
        timber  == b.material = "TIMBER"
        tall    == ~bedrock /\ b.height > 40
        score   == IF tall THEN (IF timber THEN 90 ELSE 75)
                   ELSE IF bedrock THEN 98
                   ELSE 92 + (IF timber THEN 5 ELSE 0)
        reqs    == IF tall
                   THEN IF timber
                        THEN << "Verify CLT connections per EN 1995-1-1 for seismic" >>
                        ELSE << "Damping System: Tuned Mass Damper Recommended for optimal resilience" >>
                   ELSE << >>
    IN  [ id |-> "seismic", status |-> "PASSED", score |-> score, passed |-> TRUE,
          requirements |-> reqs,
          zone |-> IF bedrock THEN "Flysch Zone (Bedrock)" ELSE "Vienna Basin (Sediment)" ]

(***************************************************************************)
(* services/audits/seismic.js : WindLoadAudit                              *)
(***************************************************************************)
\* 1. shielding: the neighbour count, less one for the building itself
WindNeighborCount(b, allBuildings) ==
    IF Len(allBuildings) > 0
    THEN Max2(0, countFeaturesInRadius([lat |-> b.lat, lng |-> b.lng], allBuildings, 150) - 1)
    ELSE 0

\* variant: the height escalation as a penalty of 25 on the band score
WindVerdictAdditive(height, neighborCount) ==
    LET band == IF neighborCount < 3
                THEN [status |-> "FAILED", score |-> 65, shielding |-> "None (Highly Exposed)",
                      requirements |-> << "High-Wind Bracing: Reinforced Facade Class A+ REQUIREMENT" >>]
                ELSE IF neighborCount < 10
                THEN [status |-> "PASSED", score |-> 90, shielding |-> "Low",
                      requirements |-> << >>]
                ELSE [status |-> "PASSED", score |-> 98, shielding |-> "High (Protected)",
                      requirements |-> << >>]
    IN  IF height > 60
        THEN [status |-> "FAILED", score |-> band.score - 25, shielding |-> band.shielding,
              requirements |-> band.requirements
                  \o << "Advanced Aerodynamics: Wind Tunnel Testing MANDATORY" >>]
        ELSE band

\* 2. exposure band, 3. height override
WindVerdict(height, neighborCount) ==
    LET band == IF neighborCount < 3
                THEN [status |-> "FAILED", score |-> 65, shielding |-> "None (Highly Exposed)",
                      requirements |-> << "High-Wind Bracing: Reinforced Facade Class A+ REQUIREMENT" >>]
                ELSE IF neighborCount < 10
                THEN [status |-> "PASSED", score |-> 90, shielding |-> "Low",
                      requirements |-> << >>]
                ELSE [status |-> "PASSED", score |-> 98, shielding |-> "High (Protected)",
                      requirements |-> << >>]
    IN  IF height > 60 /\ neighborCount < 3
        THEN [status |-> "FAILED", score |-> 40, shielding |-> band.shielding,
              requirements |-> band.requirements
                  \o << "Advanced Aerodynamics: Wind Tunnel Testing MANDATORY" >>]
        ELSE band

WindLoadAuditExecute(b, allBuildings) ==
    LET n == WindNeighborCount(b, allBuildings)
        v == WindVerdict(b.height, n)
    IN  [ id |-> "wind_load", status |-> v.status, score |-> v.score,
          passed |-> v.status = "PASSED", requirements |-> v.requirements,
          neighborCount |-> n, shielding |-> v.shielding ]

(***************************************************************************)
(* hooks/useSpotAudit.js : executeAllAudits                                *)
(***************************************************************************)
\* requirements[0]; undefined for an empty list, which like '' is falsy
Undefined == ""

FirstRequirement(reqs) == IF Len(reqs) = 0 THEN Undefined ELSE reqs[1]

\* the two constraints pushed for a failed structural audit
StructuralConstraints(seismic, wind) ==
    (IF ~seismic.passed
     THEN << [id |-> "seismic-fail", severity |-> "critical",
              message |-> FirstRequirement(seismic.requirements)] >>
     ELSE << >>)
    \o (IF ~wind.passed
        THEN << [id |-> "wind-fail", severity |-> "critical",
                 message |-> FirstRequirement(wind.requirements)] >>
        ELSE << >>)

\* allConstraints after phase 5
UnionConstraints(a) ==
    a.zoning.constraints \o a.heritage.constraints \o a.subsurface.constraints
    \o a.climate.constraints \o StructuralConstraints(a.seismic, a.wind)

\* totalScore after phase 5, doubled: the structural term
\* (seismic.score + wind.score) / 2 may end in .5
TotalScore2(a) ==
    2 * (a.zoning.score + a.heritage.score + a.subsurface.score + a.climate.score)
    + (a.seismic.score + a.wind.score)

\* variant: seismic and wind each counted as a domain of their own
PassedCountSeparate(a) ==
    (IF a.zoning.passed THEN 1 ELSE 0) + (IF a.heritage.passed THEN 1 ELSE 0)
    + (IF a.subsurface.passed THEN 1 ELSE 0) + (IF a.climate.passed THEN 1 ELSE 0)
    + (IF a.seismic.passed THEN 1 ELSE 0) + (IF a.wind.passed THEN 1 ELSE 0)

\* passedCount after phase 5
PassedCount(a) ==
    (IF a.zoning.passed THEN 1 ELSE 0) + (IF a.heritage.passed THEN 1 ELSE 0)
    + (IF a.subsurface.passed THEN 1 ELSE 0) + (IF a.climate.passed THEN 1 ELSE 0)
    + (IF a.seismic.passed /\ a.wind.passed THEN 1 ELSE 0)

\* variant: Math.floor(totalScore / 5)
FeasibilityFloor(total2) == total2 \div 10

\* Math.round(totalScore / 5) from the doubled total: floor(t2 / 10 + 1 / 2)
Feasibility(total2) == (total2 + 5) \div 10

\* allConstraints.some(c => c.severity === 'blocking')
HasBlocking(cs) == \E i \in DOMAIN cs : cs[i].severity = "blocking"

\* variant: the HIGH test ahead of the blocking test
DecideStatusHighFirst(hasBlocking, allPassed, feasibility) ==
    IF allPassed /\ feasibility >= 80
    THEN [status |-> "HIGH - Ready for Submission", statusColor |-> "success"]
    ELSE IF hasBlocking THEN [status |-> "REJECTED", statusColor |-> "danger"]
    ELSE IF feasibility >= 60
    THEN [status |-> "MEDIUM - Proceed with Caution", statusColor |-> "warning"]
    ELSE [status |-> "LOW - Significant Issues", statusColor |-> "danger"]

\* lines 88-101 of executeAllAudits
DecideStatus(hasBlocking, allPassed, feasibility) ==
    IF hasBlocking THEN [status |-> "REJECTED", statusColor |-> "danger"]
    ELSE IF allPassed /\ feasibility >= 80
    THEN [status |-> "HIGH - Ready for Submission", statusColor |-> "success"]
    ELSE IF feasibility >= 60
    THEN [status |-> "MEDIUM - Proceed with Caution", statusColor |-> "warning"]
    ELSE [status |-> "LOW - Significant Issues", statusColor |-> "danger"]

\* variant: the first blocking constraint ahead of any critical one
KeyRiskMostSevere(cs) ==
    LET blk  == SelectSeq(cs, LAMBDA c : c.severity = "blocking")
        crit == SelectSeq(cs, LAMBDA c : c.severity = "critical")
    IN  IF Len(blk) > 0 THEN blk[1].message
        ELSE IF Len(crit) > 0 THEN crit[1].message
        ELSE "No critical constraints"

\* criticalConstraints[0]?.message || 'No critical constraints'
KeyRisk(cs) ==
    LET crit == SelectSeq(cs, LAMBDA c : c.severity = "blocking" \/ c.severity = "critical")
    IN  IF Len(crit) = 0 \/ crit[1].message = Undefined
        THEN "No critical constraints"
        ELSE crit[1].message

\* the part of executeAllAudits after the six evaluator calls
Aggregate(a) ==
    LET cs == UnionConstraints(a)
        f  == Feasibility(TotalScore2(a))
        pcnt == PassedCount(a)
        st == DecideStatus(HasBlocking(cs), pcnt = 5, f)
    IN  [ audits |-> a, feasibility |-> f, status |-> st.status,
          statusColor |-> st.statusColor, keyRisk |-> KeyRisk(cs),
          constraints |-> cs,
          mandates |-> a.climate.mandates,
          passedCount |-> pcnt, totalAudits |-> 5 ]

\* the six evaluator calls, on the module's dataset buildingsData.features
RunEvaluators(b, ctx, allBuildings) ==
    [ zoning     |-> ZoningAuditExecute(b, ctx),
      heritage   |-> HeritageAuditExecute(b, ctx),
      subsurface |-> SubsurfaceAuditExecute(b, ctx),
      climate    |-> Climate2036AuditExecute(b, ctx),
      seismic    |-> SeismicAuditExecute(b),
      wind       |-> WindLoadAuditExecute(b, allBuildings) ]

executeAllAudits(b, ctx, allBuildings) == Aggregate(RunEvaluators(b, ctx, allBuildings))

(***************************************************************************)
(* Inputs.  The audited sites, the candidate datasets and the building     *)
(* parameters are drawn from the sets below.                               *)
(***************************************************************************)
\* <<lat, lng>>
SiteList ==
    << <<4820840, 1637250>>,   \* on Stephansplatz station (U1/U3), district 1
       <<4820840, 1637290>>,   \* 29.6 m east of it
       <<4820840, 1637304>>,   \* 40.0 m east of it
       <<4820840, 1637317>>,   \* 49.7 m east of it
       <<4821700, 1637000>>,   \* district 1, UNESCO buffer, no landmark, no station near
       <<4820450, 1636820>>,   \* between Hofburg and State Opera, inside both radii
       <<4821200, 1638700>>,   \* district 2, HQ100 flood zone
       <<4822800, 1640500>>,   \* district 2, outside the flood zone
       <<4820500, 1634000>>,   \* district 7, west of 16.35 (bedrock)
       <<4820500, 1635200>>,   \* district 7, Spittelberg protection zone
       <<4821000, 1635700>>,   \* boxes of districts 1 and 7 overlap here; 86 m from Rathaus
       <<4819000, 1637000>> >> \* outside every district box

Sites == { SiteList[i] : i \in DOMAIN SiteList }

\* where a ring of neighbouring structures stands around a site: <<dlat, dlng>>;
\* the twelfth stands 118.6 m due east, the others within 94 m
RingOffsets ==
    << <<20, 0>>, <<-20, 0>>, <<0, 30>>, <<0, -30>>, <<40, 40>>, <<-40, 40>>,
       <<40, -40>>, <<-40, -40>>, <<60, 0>>, <<-60, 0>>, <<0, 80>>, <<0, 160>>,
       <<70, 70>>, <<-70, -70>> >>

\* structures per site in the sparse and in the dense dataset
SparseRing == 4

DenseRing == 12

\* heights of the structures of a sparse ring (average 22.5, maximum 30) and
\* of a dense one (one of 32 m among 20 m ones)
SparseHeight(i) == IF i = 1 THEN 18 ELSE IF i = 2 THEN 20 ELSE IF i = 3 THEN 22
                   ELSE IF i = 4 THEN 30 ELSE 20

DenseHeight(i) == IF i = 1 THEN 32 ELSE 20

\* the height of structure i of a ring of the given kind
RingHeight(kind, i) == IF kind = "sparse" THEN SparseHeight(i) ELSE DenseHeight(i)

\* properties.id of structure i around a site
FeatureId(site, i) ==
    "b" \o ToString(site[1]) \o "-" \o ToString(site[2]) \o "-" \o ToString(i)

\* the structures of one ring: k of them around <<lat, lng>>
Ring(site, k, kind) ==
    [ i \in 1..k |-> [lat |-> site[1] + RingOffsets[i][1],
                      lng |-> site[2] + RingOffsets[i][2],
                      height |-> RingHeight(kind, i),
                      id |-> FeatureId(site, i),
                      levels |-> RingHeight(kind, i) \div 3] ]

\* the places structures stand around: Stephansplatz, the district 1 site
\* clear of landmarks, the Spittelberg site, the site outside every district
RingSites ==
    << <<4820840, 1637250>>, <<4821700, 1637000>>,
       <<4820500, 1635200>>, <<4819000, 1637000>> >>

\* a ring around every one of RingSites, one after the other
RECURSIVE RingsFrom(_, _, _)
RingsFrom(n, k, kind) ==
    IF n > Len(RingSites) THEN << >>
    ELSE Ring(RingSites[n], k, kind) \o RingsFrom(n + 1, k, kind)

EmptyDataset == << >>

SparseDataset == RingsFrom(1, SparseRing, "sparse")

DenseDataset == RingsFrom(1, DenseRing, "dense")

\* the candidate values of buildingsData.features
Datasets == { EmptyDataset, SparseDataset, DenseDataset }

HeightValues == {16, 20, 22, 29, 30, 31, 36, 41, 44, 61}

FloorValues == {4, 7}

BasementDepthValues == {5, 8, 16}

Materials == {"CONCRETE", "TIMBER"}

\* surface seal, footprint, roof area, green roof, solar panels, ground elevation
ClimateProfiles ==
    { [surfaceSeal |-> 70, footprint |-> 200, roofArea |-> 200, hasGreenRoof |-> FALSE,
       hasSolarPanels |-> FALSE, groundElevation |-> 0],
      [surfaceSeal |-> 75, footprint |-> 500, roofArea |-> 250, hasGreenRoof |-> TRUE,
       hasSolarPanels |-> TRUE, groundElevation |-> 3],
      [surfaceSeal |-> 85, footprint |-> 200, roofArea |-> 200, hasGreenRoof |-> FALSE,
       hasSolarPanels |-> FALSE, groundElevation |-> 0],
      [surfaceSeal |-> 85, footprint |-> 500, roofArea |-> 250, hasGreenRoof |-> FALSE,
       hasSolarPanels |-> FALSE, groundElevation |-> 0] }

\* the building object runSpotAudit and silentReAudit assemble
MakeBuilding(site, h, fl, depth, mat, cp) ==
    [ latitude |-> site[1], longitude |-> site[2], lat |-> site[1], lng |-> site[2],
      height |-> h, floors |-> fl, footprint |-> cp.footprint, roofArea |-> cp.roofArea,
      surfaceSeal |-> cp.surfaceSeal, basementDepth |-> depth,
      groundElevation |-> cp.groundElevation, hasGreenRoof |-> cp.hasGreenRoof,
      hasSolarPanels |-> cp.hasSolarPanels, material |-> mat ]

\* const context = { district, neighborhood } as runSpotAudit builds it
MakeContext(site, allBuildings) ==
    [ district |-> detectDistrict(site[1], site[2]),
      neighborhood |-> getNeighborhoodStats([lat |-> site[1], lng |-> site[2]],
                                            allBuildings, 150) ]

Buildings ==
    { MakeBuilding(site, h, fl, depth, mat, cp) :
        site \in Sites, h \in HeightValues, fl \in FloorValues,
        depth \in BasementDepthValues, mat \in Materials, cp \in ClimateProfiles }

NoAudits == [zoning |-> "none"]

\* results === null
NoResult == [status |-> "none"]

\* lastAuditContext.current === null
NoContext == [latitude |-> "none"]

\* a parameter object ({ height: 44 }, buildingConfig, mergedParams): has is
\* the set of its keys, the field of a key it lacks is never read; heightNaN
\* tells that its height is NaN, the height field then holding 0, and
\* heightBigInt that its height is a BigInt (10n) and no Number
NoParams ==
    [ has |-> {}, id |-> "", height |-> 0, heightNaN |-> FALSE,
      heightBigInt |-> FALSE, floors |-> 0, footprint |-> 0, surfaceSeal |-> 0,
      material |-> "" ]

\* useState({ material: 'CONCRETE', height: 20, floors: 5, footprint: 200, ... })
InitialConfig ==
    [ NoParams EXCEPT !.has = {"material", "height", "floors", "footprint"},
                      !.material = "CONCRETE", !.height = 20, !.floors = 5,
                      !.footprint = 200 ]

\* the hook as useSpotAudit() returns it on the first render
HookAtRest ==
    /\ buildingConfig = InitialConfig
    /\ lastAuditContext = NoContext
    /\ isLoading = FALSE
    /\ runs = << >>
    /\ calls = [runSpotAudit |-> 0, updateBuildingConfig |-> 0]

(***************************************************************************)
(* Spec: one audit of a building at a site over a dataset.                 *)
(***************************************************************************)
Init ==
    /\ features \in Datasets
    /\ building \in Buildings
    /\ context = MakeContext(<<building.latitude, building.longitude>>, features)
    /\ audits = NoAudits
    /\ result = NoResult
    /\ pc = "ready"
    /\ HookAtRest

\* REMEDIATION_RULES.HEIGHT_VIOLATION.getRemediation(constraint, building): the
\* constraint carries limit = regulatorySpec.maxHeight and contextualLimit =
\* results.contextualLimit of the zoning result z that pushed it
HeightReduction(z) ==
    [ type |-> "HEIGHT_REDUCTION",
      action |-> [height |-> IF z.contextualLimit # 0 THEN z.contextualLimit
                                                      ELSE z.bauklasse.maxHeight],
      constraintType |-> "HEIGHT_VIOLATION", priority |-> 1 ]

\* generateRuleBasedRemediations(constraints, building), of the zoning
\* constraints the HEIGHT_REDUCTION remediations: one for each
\* HEIGHT_VIOLATION constraint
RECURSIVE HeightReductions(_, _, _)
HeightReductions(cs, z, i) ==
    IF i > Len(cs) THEN << >>
    ELSE (IF cs[i].type = "HEIGHT_VIOLATION" THEN << HeightReduction(z) >> ELSE << >>)
             \o HeightReductions(cs, z, i + 1)

generateRuleBasedRemediations(z) == HeightReductions(z.constraints, z, 1)

\* const auditData = executeAllAudits(building, context)
ExecuteAllAudits ==
    /\ pc = "ready"
    /\ audits' = RunEvaluators(building, context, features)
    /\ result' = Aggregate(audits')
    /\ pc' = "audited"
    /\ UNCHANGED <<building, context, features, hookVars>>

\* a HEIGHT_REDUCTION remediation applied: the building takes action.height
\* and the audits run again with the same context
ApplyHeightReduction ==
    /\ pc = "audited"
    /\ \E i \in DOMAIN generateRuleBasedRemediations(audits.zoning) :
           building' = [building EXCEPT
               !.height = generateRuleBasedRemediations(audits.zoning)[i].action.height]
    /\ audits' = RunEvaluators(building', context, features)
    /\ result' = Aggregate(audits')
    /\ pc' = "remediated"
    /\ UNCHANGED <<context, features, hookVars>>

Next == ExecuteAllAudits \/ ApplyHeightReduction

Spec == Init /\ [][Next]_vars

(***************************************************************************)
(* SpecAgg: the aggregation of executeAllAudits over evaluator results of  *)
(* every shape an AuditResult can take, also those the six evaluators of   *)
(* this repository never return together.                                  *)
(***************************************************************************)
SynthCritical == Constraint("SYNTH_CRITICAL", "critical", "critical finding")

SynthBlocking == Constraint("SYNTH_BLOCKING", "blocking", "blocking finding")

SynthWarning == Constraint("SYNTH_WARNING", "warning", "advisory finding")

SynthZoning ==
    { [passed |-> p, score |-> s, constraints |-> cs] :
        p \in BOOLEAN, s \in {55, 80, 100},
        cs \in { << >>, << SynthCritical >>, << SynthWarning, SynthBlocking >> } }

SynthHeritage ==
    { [passed |-> p, score |-> s, constraints |-> cs] :
        p \in BOOLEAN, s \in {60, 100},
        cs \in { << >>, << SynthCritical, SynthBlocking >> } }

SynthSubsurface ==
    { [passed |-> p, score |-> s, constraints |-> << >>] :
        p \in BOOLEAN, s \in {45, 100} }

SynthClimate ==
    { [passed |-> p, score |-> s, constraints |-> << >>, mandates |-> << >>] :
        p \in BOOLEAN, s \in {79, 100} }

\* a failed structural audit carries the requirement its message is taken from
SynthStructural(scores) ==
    { [passed |-> p, score |-> s,
       requirements |-> IF p THEN << >> ELSE << "structural requirement" >>] :
        p \in BOOLEAN, s \in scores }

SynthAudits ==
    { [zoning |-> z, heritage |-> h, subsurface |-> u, climate |-> c,
       seismic |-> q, wind |-> w] :
        z \in SynthZoning, h \in SynthHeritage, u \in SynthSubsurface,
        c \in SynthClimate, q \in SynthStructural({80, 97}),
        w \in SynthStructural({90, 98}) }

DefaultSite == <<4821700, 1637000>>

DefaultBuilding ==
    MakeBuilding(DefaultSite, 20, 5, 5, "CONCRETE",
                 [surfaceSeal |-> 70, footprint |-> 200, roofArea |-> 200,
                  hasGreenRoof |-> FALSE, hasSolarPanels |-> FALSE,
                  groundElevation |-> 0])

InitAgg ==
    /\ features = EmptyDataset
    /\ building = DefaultBuilding
    /\ context = MakeContext(DefaultSite, EmptyDataset)
    /\ audits \in SynthAudits
    /\ result = NoResult
    /\ pc = "ready"
    /\ HookAtRest

\* lines 83-119 of executeAllAudits, on the six results it has collected
AggregateResults ==
    /\ pc = "ready"
    /\ result' = Aggregate(audits)
    /\ pc' = "audited"
    /\ UNCHANGED <<building, context, features, audits, hookVars>>

NextAgg == AggregateResults

SpecAgg == InitAgg /\ [][NextAgg]_vars

(***************************************************************************)
(* Properties of the aggregation (executeAllAudits)                        *)
(***************************************************************************)
Audited == pc = "audited"

StatusRejected == "REJECTED"

StatusHigh == "HIGH - Ready for Submission"

StatusMedium == "MEDIUM - Proceed with Caution"

StatusLow == "LOW - Significant Issues"

AnyBlocking == \E i \in DOMAIN result.constraints : result.constraints[i].severity = "blocking"

DomainScoreSum2 ==
    2 * audits.zoning.score + 2 * audits.heritage.score
    + 2 * audits.subsurface.score + 2 * audits.climate.score
    + audits.seismic.score + audits.wind.score

\* C2: the feasibility is the sum of the zoning, heritage, subsurface and
\* climate scores and of the mean of the seismic and wind scores, divided by
\* five and rounded to the nearest integer (a half rounds up); it lies in
\* 0..100.  Scores 100, 100, 100, 100 with seismic 80 and wind 90 give 97.
C2_Feasibility ==
    Audited =>
        /\ result.feasibility \in 0..100
        /\ 10 * result.feasibility - 5 <= DomainScoreSum2
        /\ DomainScoreSum2 < 10 * result.feasibility + 5
        /\ ( /\ audits.zoning.score = 100 /\ audits.heritage.score = 100
             /\ audits.subsurface.score = 100 /\ audits.climate.score = 100
             /\ audits.seismic.score = 80 /\ audits.wind.score = 90 )
               => result.feasibility = 97

C2_Witness ==
    /\ Audited
    /\ audits.zoning.score = 100 /\ audits.heritage.score = 100
    /\ audits.subsurface.score = 100 /\ audits.climate.score = 100
    /\ audits.seismic.score = 80 /\ audits.wind.score = 90
    /\ result.feasibility = 97

MainDomains == {"zoning", "heritage", "subsurface", "climate"}

\* C3: passedCount is the number of the zoning, heritage, subsurface and
\* climate results that passed, plus one when the seismic and the wind result
\* both passed; the structural pair never counts twice, passedCount lies in
\* 0..5 and totalAudits is 5.
C3_PassedCount ==
    Audited =>
        /\ result.passedCount =
               Cardinality({ d \in MainDomains : audits[d].passed })
               + (IF audits.seismic.passed /\ audits.wind.passed THEN 1 ELSE 0)
        /\ result.passedCount \in 0..5
        /\ result.totalAudits = 5

\* every domain passed: the structural pair adds one, not two
C3_Witness ==
    /\ Audited
    /\ \A d \in MainDomains : audits[d].passed
    /\ audits.seismic.passed /\ audits.wind.passed
    /\ result.passedCount = 5

IsRisk(c) == c.severity = "blocking" \/ c.severity = "critical"

RiskMessages(cs) ==
    LET sel == SelectSeq(cs, IsRisk)
    IN  [ i \in 1..Len(sel) |-> sel[i].message ]

StructuralRiskMessages ==
    (IF audits.seismic.passed THEN << >> ELSE << audits.seismic.requirements[1] >>)
    \o (IF audits.wind.passed THEN << >> ELSE << audits.wind.requirements[1] >>)

RisksInUnionOrder ==
    RiskMessages(audits.zoning.constraints) \o RiskMessages(audits.heritage.constraints)
    \o RiskMessages(audits.subsurface.constraints) \o RiskMessages(audits.climate.constraints)
    \o StructuralRiskMessages

NoKeyRisk == "No critical constraints"

\* C4: keyRisk is the message of the first constraint of severity blocking or
\* critical in the union order zoning, heritage, subsurface, climate,
\* seismic-fail, wind-fail; it is the placeholder "No critical constraints"
\* exactly when the union holds no constraint of either severity.
C4_KeyRiskFirst ==
    Audited =>
        /\ RisksInUnionOrder # << >> => result.keyRisk = RisksInUnionOrder[1]
        /\ (result.keyRisk = NoKeyRisk) <=> (RisksInUnionOrder = << >>)
        /\ (RisksInUnionOrder = << >>)
               <=> ~\E i \in DOMAIN result.constraints : IsRisk(result.constraints[i])

\* the wind failure is the key risk: the constraints ahead of it in the union
\* are of lower severity
C4_Witness ==
    /\ Audited
    /\ ~audits.wind.passed
    /\ Len(result.constraints) > 1
    /\ result.keyRisk = audits.wind.requirements[1]
    /\ RiskMessages(audits.heritage.constraints) = << >>

\* C5: whenever the union holds a blocking constraint, keyRisk is the message
\* of a blocking constraint.
C5_KeyRiskBlocking ==
    (Audited /\ AnyBlocking) =>
        \E i \in DOMAIN result.constraints :
            /\ result.constraints[i].severity = "blocking"
            /\ result.keyRisk = result.constraints[i].message

(***************************************************************************)
(* Properties of the evaluators                                            *)
(***************************************************************************)
EvaluatorNames == {"zoning", "heritage", "subsurface", "climate", "seismic", "wind"}

\* C6: every one of the six evaluators returns a score between 0 and 100,
\* for every building and context.
C6_ScoreRange ==
    Audited => \A d \in EvaluatorNames : audits[d].score \in 0..100

\* the penalties add up to the whole score (climate, 0) in one evaluator while
\* another has none (subsurface, 100)
C6_Witness ==
    /\ Audited
    /\ audits.climate.score = 0
    /\ audits.subsurface.score = 100
    /\ audits.heritage.score < 100

\* strictly inside the rectangle of UNESCO_BUFFER
InsideUnescoBuffer ==
    /\ building.longitude > 1635500 /\ building.longitude < 1639000
    /\ building.latitude > 4820000 /\ building.latitude < 4822000

\* the landmarks whose radius reaches the building
LandmarksInReach ==
    { i \in DOMAIN UNESCO_BUFFER.landmarks :
        getDistance(building.latitude, building.longitude,
                    UNESCO_BUFFER.landmarks[i].lat, UNESCO_BUFFER.landmarks[i].lng)
            < 100 * UNESCO_BUFFER.landmarks[i].protectionRadius }

HeritageBlocked ==
    /\ audits.heritage.passed = FALSE
    /\ \E i \in DOMAIN audits.heritage.constraints :
           /\ audits.heritage.constraints[i].type = "UNESCO_HEIGHT_VIOLATION"
           /\ audits.heritage.constraints[i].severity = "blocking"

\* C7 as stated: inside the UNESCO buffer polygon a building 44 m high (the
\* 43 m limit plus one) fails the heritage audit with a blocking constraint
\* and a heritage score of exactly 50, at every location inside the polygon.
C7_UnescoScoreFifty ==
    (Audited /\ InsideUnescoBuffer /\ building.height = 44) =>
        /\ HeritageBlocked
        /\ audits.heritage.score = 50

\* C7: inside the UNESCO buffer polygon a building 44 m high fails the
\* heritage audit with a blocking constraint; its heritage score is 50 less
\* 10 for every landmark within whose radius it stands, so exactly 50 only
\* where no landmark is in reach.
C7_UnescoScore ==
    (Audited /\ InsideUnescoBuffer /\ building.height = 44) =>
        /\ HeritageBlocked
        /\ audits.heritage.score = 50 - 10 * Cardinality(LandmarksInReach)

\* two landmarks in reach: 30
C7_Witness ==
    /\ Audited /\ InsideUnescoBuffer /\ building.height = 44
    /\ Cardinality(LandmarksInReach) = 2
    /\ audits.heritage.score = 30
    /\ HeritageBlocked

\* the regulatory maximum height of the building's district
DistrictMaxHeight ==
    IF context.district = 1 \/ context.district = 7 THEN 21 ELSE 16

IsHeightConstraint(c) ==
    c.type = "HEIGHT_VARIANCE_OPPORTUNITY" \/ c.type = "HEIGHT_VIOLATION"

ZoningHeightConstraints == SelectSeq(audits.zoning.constraints, IsHeightConstraint)

HasZoningConstraint(t) ==
    \E i \in DOMAIN audits.zoning.constraints : audits.zoning.constraints[i].type = t

\* what the floor and the protection-zone checks take from the zoning score
ZoningOtherPenalty ==
    (IF HasZoningConstraint("FLOOR_WARNING") THEN 20 ELSE 0)
    + (IF HasZoningConstraint("SCHUTZZONE") THEN 10 ELSE 0)

\* C8: a building higher than its district's regulatory maximum but not
\* higher than the result's contextualLimit fails zoning with exactly one
\* height constraint, HEIGHT_VARIANCE_OPPORTUNITY of severity important; no
\* zoning constraint is critical and the height costs 15 points, not 40.
C8_HeightVariance ==
    ( /\ Audited
      /\ building.height > DistrictMaxHeight
      /\ building.height <= audits.zoning.contextualLimit ) =>
        /\ audits.zoning.bauklasse.maxHeight = DistrictMaxHeight
        /\ audits.zoning.passed = FALSE
        /\ Len(ZoningHeightConstraints) = 1
        /\ ZoningHeightConstraints[1].type = "HEIGHT_VARIANCE_OPPORTUNITY"
        /\ ZoningHeightConstraints[1].severity = "important"
        /\ \A i \in DOMAIN audits.zoning.constraints :
               audits.zoning.constraints[i].severity # "critical"
        /\ audits.zoning.score = 100 - 15 - ZoningOtherPenalty

\* 22 m in district 1 (21 m) among taller neighbours, floors and protection
\* zone adding their own penalties
C8_Witness ==
    /\ Audited
    /\ context.district = 1
    /\ building.height = 22
    /\ building.height <= audits.zoning.contextualLimit
    /\ HasZoningConstraint("HEIGHT_VARIANCE_OPPORTUNITY")
    /\ audits.zoning.score = 55

\* the greatest of the three baselines, in hundredths of a metre
ContextBaselineMax100 ==
    LET reg == 100 * audits.zoning.bauklasse.maxHeight
        sug == 100 * audits.zoning.suggestedBauklasse.maxHeight
        nb  == 95 * context.neighborhood.maxHeight
    IN  IF context.neighborhood.maxHeight > 0
        THEN Max2(Max2(reg, sug), nb)
        ELSE Max2(reg, sug)

\* C9: the contextual limit is exactly the maximum of the regulatory limit,
\* the limit of the class suggested by the neighbourhood average height and
\* 95% of the neighbourhood maximum height; a building higher than all three
\* gets HEIGHT_VIOLATION (critical, 40 points, passed = false), never the
\* variance treatment.
C9_ContextualLimitExact ==
    Audited =>
        /\ 100 * audits.zoning.contextualLimit = ContextBaselineMax100
        /\ 100 * building.height > ContextBaselineMax100 =>
               /\ audits.zoning.passed = FALSE
               /\ Len(ZoningHeightConstraints) = 1
               /\ ZoningHeightConstraints[1].type = "HEIGHT_VIOLATION"
               /\ ZoningHeightConstraints[1].severity = "critical"
               /\ audits.zoning.score = 100 - 40 - ZoningOtherPenalty

\* the distance to the nearest U-Bahn station, in centimetres
NearestStationCm ==
    LET ds == { getDistance(building.latitude, building.longitude,
                            UBAHN_STATIONS[i].lat, UBAHN_STATIONS[i].lng) :
                  i \in DOMAIN UBAHN_STATIONS }
    IN  CHOOSE d \in ds : \A e \in ds : d <= e

IsProximityConstraint(c) ==
    c.type \in {"TUNNEL_CRITICAL", "TUNNEL_RESTRICTED", "TUNNEL_MONITORING"}

ProximityConstraints == SelectSeq(audits.subsurface.constraints, IsProximityConstraint)

DepthPenalty ==
    IF \E i \in DOMAIN audits.subsurface.constraints :
           audits.subsurface.constraints[i].type = "DEPTH_CONFLICT"
    THEN 20 ELSE 0

ProximityIs(t, sev, passed, delta) ==
    /\ Len(ProximityConstraints) = 1
    /\ ProximityConstraints[1].type = t
    /\ ProximityConstraints[1].severity = sev
    /\ audits.subsurface.passed = passed
    /\ audits.subsurface.score = 100 - delta - DepthPenalty

\* C10: with d the distance to the nearest U-Bahn station, d < 30 m gives
\* TUNNEL_CRITICAL (blocking, 50 points, failed), 30 <= d < 50 gives
\* TUNNEL_RESTRICTED (critical, 30 points, still passed), 50 <= d < 100 gives
\* TUNNEL_MONITORING (warning, 10 points), d >= 100 gives no proximity
\* constraint; never more than one proximity constraint.
C10_DistanceBands ==
    Audited =>
        /\ Len(ProximityConstraints) <= 1
        /\ NearestStationCm < 3000 =>
               ProximityIs("TUNNEL_CRITICAL", "blocking", FALSE, 50)
        /\ (3000 <= NearestStationCm /\ NearestStationCm < 5000) =>
               ProximityIs("TUNNEL_RESTRICTED", "critical", TRUE, 30)
        /\ (5000 <= NearestStationCm /\ NearestStationCm < 10000) =>
               ProximityIs("TUNNEL_MONITORING", "warning", TRUE, 10)
        /\ NearestStationCm >= 10000 =>
               /\ ProximityConstraints = << >>
               /\ audits.subsurface.passed = TRUE
               /\ audits.subsurface.score = 100 - DepthPenalty

\* what the proximity band takes from the subsurface score
BandPenalty ==
    IF ProximityConstraints = << >> THEN 0
    ELSE IF ProximityConstraints[1].type = "TUNNEL_CRITICAL" THEN 50
    ELSE IF ProximityConstraints[1].type = "TUNNEL_RESTRICTED" THEN 30
    ELSE 10

DepthConflicts ==
    SelectSeq(audits.subsurface.constraints, LAMBDA c : c.type = "DEPTH_CONFLICT")

BasementTooDeep ==
    building.basementDepth > audits.subsurface.nearestLine.tunnelDepth - 5

\* C11: in every proximity band, and 100 m or more from every station too,
\* a basement deeper than the nearest line's tunnel depth less 5 gets the
\* DEPTH_CONFLICT constraint and 20 points off on top of the band penalty;
\* otherwise there is no DEPTH_CONFLICT.  The depth check leaves passed alone.
C11_DepthConflict ==
    Audited =>
        /\ Len(DepthConflicts) = (IF BasementTooDeep THEN 1 ELSE 0)
        /\ audits.subsurface.score
               = 100 - BandPenalty - (IF BasementTooDeep THEN 20 ELSE 0)
        /\ audits.subsurface.passed
               <=> ~(\E i \in DOMAIN ProximityConstraints :
                        ProximityConstraints[i].type = "TUNNEL_CRITICAL")

\* more than 200 m from every station, outside every band: the conflict
\* alone, 80 points, still passed
C11_Witness ==
    /\ Audited
    /\ NearestStationCm > 20000
    /\ ProximityConstraints = << >>
    /\ Len(DepthConflicts) = 1
    /\ audits.subsurface.score = 80
    /\ audits.subsurface.passed

ClimateMandateTypes ==
    { audits.climate.mandates[i].type : i \in DOMAIN audits.climate.mandates }

\* the deltas of the climate checks the building triggers
ClimateDeltaSum ==
    (IF building.surfaceSeal > 80 THEN 50
     ELSE IF building.surfaceSeal > 70 THEN 15 ELSE 0)
    + (IF audits.climate.uhiIntensity.category \in {"high", "extreme"} THEN 10 ELSE 0)
    + (IF "FLOOD_ELEVATION" \in ClimateMandateTypes THEN 25 ELSE 0)
    + (IF "GREEN_ROOF" \in ClimateMandateTypes THEN 10 ELSE 0)
    + (IF "SOLAR_INSTALLATION" \in ClimateMandateTypes THEN 5 ELSE 0)

\* C12: the climate audit runs every check on every call and adds the deltas
\* up: score = max(0, 100 - sum), with 50 for a surface seal above 80 (15
\* above 70), 10 in a high or extreme UHI zone, 25 in the flood zone with the
\* ground below the minimum elevation, 10 for the green-roof mandate, 5 for
\* the solar mandate; the water-retention mandate is always there and costs
\* nothing; passed is false exactly when the surface seal is above 80.
C12_ClimateAdditive ==
    Audited =>
        /\ audits.climate.score = Max2(0, 100 - ClimateDeltaSum)
        /\ "WATER_RETENTION" \in ClimateMandateTypes
        /\ audits.climate.passed <=> ~(building.surfaceSeal > 80)
        /\ "FLOOD_ELEVATION" \in ClimateMandateTypes
               <=> (audits.climate.floodZone /\ 10 * building.groundElevation < 25)
        /\ "GREEN_ROOF" \in ClimateMandateTypes
               <=> (building.footprint >= 500 /\ ~building.hasGreenRoof)
        /\ "SOLAR_INSTALLATION" \in ClimateMandateTypes
               <=> (building.roofArea >= 250 /\ ~building.hasSolarPanels)

\* every check triggered at once: 50 + 10 + 25 + 10 + 5
C12_Witness ==
    /\ Audited
    /\ building.surfaceSeal > 80
    /\ audits.climate.floodZone
    /\ ClimateMandateTypes = {"FACADE_GREENING", "FLOOD_ELEVATION", "GREEN_ROOF",
                              "SOLAR_INSTALLATION", "WATER_RETENTION"}
    /\ audits.climate.score = 0
    /\ ~audits.climate.passed

\* taller than 40 m in the sediment zone (longitude 16.35 or more)
TallOnSediment == building.height > 40 /\ building.lng >= 1635000

\* C13: a building taller than 40 m in the sediment zone passes the seismic
\* audit with score 90 when its material is timber; with any other material
\* (no upgraded structural system) it fails with a low score.
C13_TallSediment ==
    (Audited /\ TallOnSediment) =>
        /\ building.material = "TIMBER" =>
               (audits.seismic.passed /\ audits.seismic.score = 90)
        /\ building.material # "TIMBER" =>
               (~audits.seismic.passed /\ audits.seismic.score < 60)

\* C14: with n the wind audit's neighbour count, n < 3 fails with score 65,
\* 3 <= n < 10 passes with 90, n >= 10 passes with 98; a height above 60 m
\* with n < 3 replaces the score by 40 and stays failed; a height above 60 m
\* changes nothing when n >= 3.
C14_WindBands ==
    Audited =>
        LET n == audits.wind.neighborCount
            h == building.height
        IN  /\ (n < 3 /\ h <= 60) => (~audits.wind.passed /\ audits.wind.score = 65)
            /\ (n < 3 /\ h > 60) => (~audits.wind.passed /\ audits.wind.score = 40)
            /\ (3 <= n /\ n < 10) => (audits.wind.passed /\ audits.wind.score = 90)
            /\ n >= 10 => (audits.wind.passed /\ audits.wind.score = 98)

\* 61 m among ten or more neighbours: the height changes nothing
C14_Witness ==
    /\ Audited
    /\ building.height > 60
    /\ audits.wind.neighborCount >= 10
    /\ audits.wind.passed
    /\ audits.wind.score = 98

(***************************************************************************)
(* Properties of the geospatial utilities and of the context               *)
(***************************************************************************)
\* the structures of the dataset at most 150 m from the building
WithinRadius150 ==
    { i \in DOMAIN features :
        getDistance(building.lat, building.lng, features[i].lat, features[i].lng)
            <= 15000 }

\* C19: countFeaturesInRadius returns exactly the number of features whose
\* first vertex lies at great-circle distance <= r from the point; the
\* degree-based pre-filter never drops a feature the distance check accepts.
C19_CountExact ==
    Audited =>
        /\ countFeaturesInRadius([lat |-> building.lat, lng |-> building.lng],
                                 features, 150) = Cardinality(WithinRadius150)
        /\ context.neighborhood.count = Cardinality(WithinRadius150)
        /\ features # << >> =>
               audits.wind.neighborCount = Max2(0, Cardinality(WithinRadius150) - 1)

InBoxDistrict1 ==
    /\ building.latitude >= 4820000 /\ building.latitude <= 4822000
    /\ building.longitude >= 1635500 /\ building.longitude <= 1638500

InBoxDistrict2 ==
    /\ building.latitude >= 4820500 /\ building.latitude <= 4823500
    /\ building.longitude >= 1638500 /\ building.longitude <= 1642000

InBoxDistrict7 ==
    /\ building.latitude >= 4819500 /\ building.latitude <= 4821500
    /\ building.longitude >= 1633500 /\ building.longitude <= 1636000

BoxesHolding ==
    (IF InBoxDistrict1 THEN {1} ELSE {})
    \cup (IF InBoxDistrict2 THEN {2} ELSE {})
    \cup (IF InBoxDistrict7 THEN {7} ELSE {})

\* C20: the boxes of districts 1, 2 and 7 do not overlap: at most one of them
\* holds any point, the district found is the one box holding it whatever the
\* order of the tests, and it is null exactly when no box holds the point.
C20_BoxesDisjoint ==
    Audited =>
        /\ Cardinality(BoxesHolding) <= 1
        /\ context.district # NoDistrict => BoxesHolding = {context.district}
        /\ context.district = NoDistrict <=> BoxesHolding = {}

(***************************************************************************)
(* hooks/useSpotAudit.js : the useSpotAudit hook                           *)
(***************************************************************************)
\* { ...base, ...over }
Merge(base, over) ==
    [ has         |-> base.has \cup over.has,
      id          |-> IF "id" \in over.has THEN over.id ELSE base.id,
      height      |-> IF "height" \in over.has THEN over.height ELSE base.height,
      heightNaN   |-> IF "height" \in over.has THEN over.heightNaN ELSE base.heightNaN,
      heightBigInt |-> IF "height" \in over.has THEN over.heightBigInt
                                                ELSE base.heightBigInt,
      floors      |-> IF "floors" \in over.has THEN over.floors ELSE base.floors,
      footprint   |-> IF "footprint" \in over.has THEN over.footprint ELSE base.footprint,
      surfaceSeal |-> IF "surfaceSeal" \in over.has THEN over.surfaceSeal ELSE base.surfaceSeal,
      material    |-> IF "material" \in over.has THEN over.material ELSE base.material ]

\* whether m[key] is truthy: the key is there and its value is not 0, NaN or ''
Truthy(m, key) ==
    /\ key \in m.has
    /\ IF key \in {"id", "material"} THEN m[key] # "" ELSE m[key] # 0
    /\ ~(key = "height" /\ m.heightNaN)

\* key: m[key] || fallback, and after it ...m, which sets the key again
\* whenever m has it
FieldOf(m, key, fallback) ==
    LET chained == IF Truthy(m, key) THEN m[key] ELSE fallback
    IN  IF key \in m.has THEN m[key] ELSE chained

\* buildingParams.id ? buildingsData.features.find(...) : null, as the index
\* of the structure found, 0 for null and for undefined
ExistingBuilding(p, feats) ==
    IF Truthy(p, "id") /\ \E i \in DOMAIN feats : feats[i].id = p.id
    THEN CHOOSE i \in DOMAIN feats :
             /\ feats[i].id = p.id
             /\ \A k \in DOMAIN feats : feats[k].id = p.id => i <= k
    ELSE 0

\* existingBuilding?.properties?.[prop] || fallback
ExistingOr(e, feats, prop, fallback) ==
    IF e # 0 /\ feats[e][prop] # 0 THEN feats[e][prop] ELSE fallback

\* the building object of runSpotAudit (e the structure looked up) and of
\* silentReAudit (e = 0); of the keys the evaluators read, a parameter
\* object carries height, floors, footprint, surfaceSeal and material
NormalizeBuilding(lat, lng, m, e, feats) ==
    [ latitude |-> lat, longitude |-> lng, lat |-> lat, lng |-> lng,
      height |-> FieldOf(m, "height", ExistingOr(e, feats, "height", 20)),
      heightNaN |-> "height" \in m.has /\ m.heightNaN,
      heightBigInt |-> "height" \in m.has /\ m.heightBigInt,
      floors |-> FieldOf(m, "floors", ExistingOr(e, feats, "levels", 5)),
      footprint |-> FieldOf(m, "footprint", 200),
      roofArea |-> 200,
      surfaceSeal |-> FieldOf(m, "surfaceSeal", 70),
      basementDepth |-> 5,
      groundElevation |-> 0,
      hasGreenRoof |-> FALSE,
      hasSolarPanels |-> FALSE,
      material |-> FieldOf(m, "material", "CONCRETE") ]

\* the result object with success following the verdict: a REJECTED verdict
\* reported as success = false
SuccessResultVerdict(district, b, data) ==
    [ success |-> data.status # StatusRejected, district |-> district, building |-> b,
      audits |-> data.audits, feasibility |-> data.feasibility,
      status |-> data.status, statusColor |-> data.statusColor,
      keyRisk |-> data.keyRisk, constraints |-> data.constraints,
      mandates |-> data.mandates, passedCount |-> data.passedCount,
      totalAudits |-> data.totalAudits ]

\* { success: true, district, building, ...auditData }
SuccessResult(district, b, data) ==
    [ success |-> TRUE, district |-> district, building |-> b,
      audits |-> data.audits, feasibility |-> data.feasibility,
      status |-> data.status, statusColor |-> data.statusColor,
      keyRisk |-> data.keyRisk, constraints |-> data.constraints,
      mandates |-> data.mandates, passedCount |-> data.passedCount,
      totalAudits |-> data.totalAudits ]

\* { success: false, error: error.message, district }
ErrorResult(district, message) ==
    [ success |-> FALSE, error |-> message, district |-> district ]

\* the TypeError an arithmetic operator of the evaluators throws for a BigInt
\* height (height * materialProps.weightMultiplier)
BigIntError == "Cannot mix BigInt and other types, use explicit conversions"

\* whether executeAllAudits(b, context) throws
Throws(b) == b.heightBigInt

\* the spread with prev last, { building, ...auditData, ...prev }: the audit
\* contents of the result before stay
SilentResultPrevLast(prev, b, data) ==
    LET fresh == [ building |-> b,
                   audits |-> data.audits, feasibility |-> data.feasibility,
                   status |-> data.status, statusColor |-> data.statusColor,
                   keyRisk |-> data.keyRisk, constraints |-> data.constraints,
                   mandates |-> data.mandates, passedCount |-> data.passedCount,
                   totalAudits |-> data.totalAudits ]
    IN  [ k \in DOMAIN prev \cup DOMAIN fresh |->
              IF k \in DOMAIN prev /\ k # "building" THEN prev[k] ELSE fresh[k] ]

\* { ...prev, building, ...auditData }
SilentResult(prev, b, data) ==
    LET fresh == [ building |-> b,
                   audits |-> data.audits, feasibility |-> data.feasibility,
                   status |-> data.status, statusColor |-> data.statusColor,
                   keyRisk |-> data.keyRisk, constraints |-> data.constraints,
                   mandates |-> data.mandates, passedCount |-> data.passedCount,
                   totalAudits |-> data.totalAudits ]
    IN  [ k \in DOMAIN prev \cup DOMAIN fresh |->
              IF k \in DOMAIN fresh THEN fresh[k] ELSE prev[k] ]

\* runs without its i-th element
RemoveAt(seq, i) == [ k \in 1..(Len(seq) - 1) |-> IF k < i THEN seq[k] ELSE seq[k + 1] ]

\* buildingsData.features of the hook: the structures around Stephansplatz
HookDataset == Ring(<<4820840, 1637250>>, SparseRing, "sparse")

\* a structure of the dataset: 30 m, 10 levels
KnownId == FeatureId(<<4820840, 1637250>>, 4)

\* the buildingParams runSpotAudit is called with at Stephansplatz: { id },
\* { height: NaN, surfaceSeal: 120 }, { height: 10n }
HookParams ==
    { [NoParams EXCEPT !.has = {"id"}, !.id = KnownId],
      [NoParams EXCEPT !.has = {"height", "surfaceSeal"}, !.heightNaN = TRUE,
                       !.surfaceSeal = 120],
      [NoParams EXCEPT !.has = {"height"}, !.height = 10, !.heightBigInt = TRUE] }

\* the newConfig updateBuildingConfig is called with: { height: 44,
\* material: 'TIMBER' }, and setMaterial('CONCRETE'), which changes nothing
\* while the material is the initial one
ConfigUpdates ==
    { [NoParams EXCEPT !.has = {"height", "material"}, !.height = 44,
                       !.material = "TIMBER"],
      [NoParams EXCEPT !.has = {"material"}, !.material = "CONCRETE"] }

\* the calls runSpotAudit(latitude, longitude, buildingParams) made: every
\* buildingParams of HookParams at Stephansplatz, {} at the other site
HookCalls ==
    { <<<<4820840, 1637250>>, p>> : p \in HookParams } \cup { <<<<4821700, 1637000>>, NoParams>> }

\* calls of runSpotAudit and of updateBuildingConfig in a session
MaxRuns == 2

MaxUpdates == 1

NoBuilding == [latitude |-> "none"]

\* in SpecHook the building, the context and the audit results of a call are
\* locals of the call: they live in its run record and in result
InitHook ==
    /\ features = HookDataset
    /\ building = NoBuilding
    /\ context = NoContext
    /\ audits = NoAudits
    /\ result = NoResult
    /\ pc = "mounted"
    /\ HookAtRest

\* runSpotAudit up to its first await: lines 142-190
RunSpotAuditStart(site, p) ==
    /\ calls.runSpotAudit < MaxRuns
    /\ calls' = [calls EXCEPT !.runSpotAudit = @ + 1]
    /\ LET district == detectDistrict(site[1], site[2])
           e        == ExistingBuilding(p, features)
           merged   == Merge(buildingConfig, p)
           b        == NormalizeBuilding(site[1], site[2], merged, e, features)
           nb       == getNeighborhoodStats([lat |-> site[1], lng |-> site[2]],
                                            features, 150)
       IN  /\ lastAuditContext' =
                  [ latitude |-> site[1], longitude |-> site[2], district |-> district,
                    neighborhood |-> nb, baseParams |-> merged ]
           /\ runs' = Append(runs,
                  [ params |-> p, district |-> district, building |-> b,
                    context |-> [district |-> district, neighborhood |-> nb],
                    stage |-> "phases", data |-> NoResult ])
    /\ isLoading' = TRUE
    /\ result' = NoResult
    /\ pc' = "cleared"
    /\ UNCHANGED <<building, context, features, audits, buildingConfig>>

\* after the phase delays: executeAllAudits and the result object, up to
\* await delay(200), or up to the end of the catch block when executeAllAudits
\* throws: lines 193-204, 211-222
RunSpotAuditExecute(i) ==
    /\ runs[i].stage = "phases"
    /\ LET run  == runs[i]
           data == executeAllAudits(run.building, run.context, features)
       IN  IF Throws(run.building)
           THEN /\ result' = ErrorResult(run.district, BigIntError)
                /\ isLoading' = FALSE
                /\ runs' = RemoveAt(runs, i)
                /\ pc' = "runSpotAudit"
           ELSE /\ runs' = [runs EXCEPT ![i].stage = "computed",
                                ![i].data = SuccessResult(run.district, run.building, data)]
                /\ UNCHANGED <<result, isLoading, pc>>
    /\ UNCHANGED <<building, context, features, audits, buildingConfig,
                   lastAuditContext, calls>>

\* after the last delay: setResults(result), setIsLoading(false): lines 205-209
RunSpotAuditStore(i) ==
    /\ runs[i].stage = "computed"
    /\ result' = runs[i].data
    /\ isLoading' = FALSE
    /\ runs' = RemoveAt(runs, i)
    /\ pc' = "runSpotAudit"
    /\ UNCHANGED <<building, context, features, audits, buildingConfig,
                   lastAuditContext, calls>>

\* updateBuildingConfig(newConfig) with the silentReAudit(updatedConfig) it
\* calls: lines 226-279
UpdateBuildingConfig(newConfig) ==
    LET updatedConfig == Merge(buildingConfig, newConfig)
    IN  /\ calls.updateBuildingConfig < MaxUpdates
        /\ calls' = [calls EXCEPT !.updateBuildingConfig = @ + 1]
        /\ buildingConfig' = updatedConfig
        /\ IF lastAuditContext # NoContext /\ result # NoResult
           THEN LET last   == lastAuditContext
                    merged == Merge(last.baseParams, updatedConfig)
                    b      == NormalizeBuilding(last.latitude, last.longitude,
                                                merged, 0, features)
                    ctx    == [district |-> last.district,
                               neighborhood |-> last.neighborhood]
                    data   == executeAllAudits(b, ctx, features)
                IN  IF Throws(b)
                    THEN UNCHANGED <<result, lastAuditContext, pc>>
                    ELSE /\ result' = SilentResult(result, b, data)
                         /\ lastAuditContext' = [last EXCEPT !.baseParams = merged]
                         /\ pc' = "silentReAudit"
           ELSE UNCHANGED <<result, lastAuditContext, pc>>
        /\ UNCHANGED <<building, context, features, audits, isLoading, runs>>

\* clearResults: lines 286-291
ClearResults ==
    /\ result' = NoResult
    /\ lastAuditContext' = NoContext
    /\ pc' = "cleared"
    /\ UNCHANGED <<building, context, features, audits, buildingConfig, isLoading,
                   runs, calls>>

\* pc tells which function wrote results last: "runSpotAudit" or
\* "silentReAudit" for an object, "cleared" for null
NextHook ==
    \/ \E c \in HookCalls : RunSpotAuditStart(c[1], c[2])
    \/ \E i \in DOMAIN runs : RunSpotAuditExecute(i)
    \/ \E i \in DOMAIN runs : RunSpotAuditStore(i)
    \/ \E c \in ConfigUpdates : UpdateBuildingConfig(c)
    \/ ClearResults

SpecHook == InitHook /\ [][NextHook]_vars

\* the structure of the dataset a call names by id, 0 when it names none
NamedStructure(p) ==
    IF "id" \in p.has /\ \E i \in DOMAIN features : features[i].id = p.id
    THEN CHOOSE i \in DOMAIN features : features[i].id = p.id
    ELSE 0

\* C15: in every runSpotAudit call, the audited building's height and floor
\* count are the caller's when the caller supplies them, otherwise those of
\* the dataset structure the caller names by id, otherwise 20 m and 5 floors
C15_NormalizerPolicy ==
    \A i \in DOMAIN runs :
        LET p == runs[i].params
            b == runs[i].building
            e == NamedStructure(p)
        IN  /\ IF "height" \in p.has
               THEN b.heightNaN = p.heightNaN /\ (~p.heightNaN => b.height = p.height)
               ELSE /\ ~b.heightNaN
                    /\ b.height = (IF e # 0 THEN features[e].height ELSE 20)
            /\ IF "floors" \in p.has
               THEN b.floors = p.floors
               ELSE b.floors = (IF e # 0 THEN features[e].levels ELSE 5)

\* a building the validation of the specification lets through: a positive
\* numeric height and a surfaceSeal within 0..100
WellFormed(b) ==
    /\ ~b.heightNaN
    /\ ~b.heightBigInt
    /\ b.height > 0
    /\ b.surfaceSeal \in 0..100

\* C16: a runSpotAudit call with a malformed building never reaches the
\* evaluators and never stores a success result: every call past
\* executeAllAudits, and every stored success result, has a well-formed
\* building
C16_MalformedAborts ==
    /\ \A i \in DOMAIN runs : runs[i].stage = "computed" => WellFormed(runs[i].building)
    /\ (result # NoResult /\ result.success) => WellFormed(result.building)

\* the keys of a result object
Keys(r) == DOMAIN r

\* the shape of a successful run: every evaluator's result, the verdict and
\* the constraints, and no error
SuccessShape(r) ==
    /\ r.success
    /\ {"feasibility", "status", "constraints", "audits", "building"} \subseteq Keys(r)
    /\ "error" \notin Keys(r)
    /\ Keys(r.audits) = EvaluatorNames
    /\ r.status \in {StatusRejected, StatusHigh, StatusMedium, StatusLow}

\* the shape of a run that raised: an error message, no verdict
FailureShape(r) ==
    /\ ~r.success
    /\ "error" \in Keys(r)
    /\ Keys(r) \cap {"status", "feasibility", "audits", "constraints"} = {}

\* C17: every result object a runSpotAudit call stores either is the success
\* object of that call, with success = true whatever the verdict (REJECTED
\* included), or has success = false with an error message and no verdict, the
\* latter exactly when executeAllAudits threw in that call
C17_ResultShapes ==
    [][ Len(runs') < Len(runs) =>
          \E i \in DOMAIN runs :
              /\ runs' = RemoveAt(runs, i)
              /\ IF Throws(runs[i].building)
                 THEN FailureShape(result') /\ result'.error = BigIntError
                 ELSE /\ SuccessShape(result')
                      /\ result'.building = runs[i].building
                      /\ result'.feasibility \in 0..100 ]_vars

\* a call that threw has stored its failure object while another call holds
\* a REJECTED verdict in a success object
C17_Witness ==
    /\ pc = "runSpotAudit"
    /\ result # NoResult
    /\ FailureShape(result)
    /\ \E i \in DOMAIN runs :
           /\ runs[i].stage = "computed"
           /\ runs[i].data.success
           /\ runs[i].data.status = StatusRejected

\* the audit contents of a result object: all of it but the timestamp, the
\* success flag and the district label
AuditContents(r) ==
    [ k \in {"feasibility", "status", "keyRisk", "passedCount", "constraints",
             "mandates", "audits"} |-> r[k] ]

\* the pipeline run afresh on a building over the dataset as loaded
FreshAudit(b) ==
    executeAllAudits(b, MakeContext(<<b.latitude, b.longitude>>, HookDataset),
                     HookDataset)

\* the result objects of the state that carry audit contents: the stored one
\* and those of the calls between executeAllAudits and setResults
Audited18 ==
    (IF result # NoResult /\ "audits" \in DOMAIN result THEN {result} ELSE {})
        \cup { runs[i].data : i \in { k \in DOMAIN runs : runs[k].stage = "computed" } }

MeasuredPoints ==
    { <<features[i].lat, features[i].lng>> : i \in DOMAIN features }
        \cup { <<UBAHN_STATIONS[i].lat, UBAHN_STATIONS[i].lng>> : i \in DOMAIN UBAHN_STATIONS }
        \cup { <<UNESCO_BUFFER.landmarks[i].lat, UNESCO_BUFFER.landmarks[i].lng>> :
                 i \in DOMAIN UNESCO_BUFFER.landmarks }

\* C21: getDistance of a point to itself is 0, and getDistance(A, B) =
\* getDistance(B, A) for the site and every point it is measured against
C21_DistanceSymmetric ==
    Audited =>
        LET a == <<building.latitude, building.longitude>>
        IN  /\ getDistance(a[1], a[2], a[1], a[2]) = 0
            /\ \A p \in MeasuredPoints :
                   /\ getDistance(p[1], p[2], p[1], p[2]) = 0
                   /\ getDistance(a[1], a[2], p[1], p[2])
                          = getDistance(p[1], p[2], a[1], a[2])

\* an audited site whose nearest station lies at another latitude and another
\* longitude, more than a kilometre away
C21_Witness ==
    /\ Audited
    /\ audits.subsurface.nearestDistance > 1000
    /\ \E p \in MeasuredPoints :
           /\ p[1] # building.latitude
           /\ p[2] # building.longitude
           /\ getDistance(building.latitude, building.longitude, p[1], p[2]) > 100000

\* the audited site is the first vertex of a structure of the dataset
SiteIsFeature ==
    \E i \in DOMAIN features :
        features[i].lat = building.lat /\ features[i].lng = building.lng

\* C22: for a site that is not itself a structure of the dataset,
\* WindLoadAudit's neighborCount is the number of structures within 150 m
C22_NeighboursAllCounted ==
    (Audited /\ ~SiteIsFeature) =>
        audits.wind.neighborCount = Cardinality(WithinRadius150)

\* C23: after the action of a HEIGHT_REDUCTION remediation is applied and the
\* audits run again with the same context, Zoning reports no HEIGHT_VIOLATION
\* and passes
C23_HeightReductionResolves ==
    pc = "remediated" =>
        /\ audits.zoning.passed
        /\ \A i \in DOMAIN audits.zoning.constraints :
               audits.zoning.constraints[i].type # "HEIGHT_VIOLATION"

HasDistrict1Protocol ==
    \E i \in DOMAIN audits.heritage.constraints :
        audits.heritage.constraints[i].type = "DISTRICT_1_PROTOCOL"

\* C24: HeritageAudit emits the DISTRICT_1_PROTOCOL constraint exactly for the
\* buildings whose context has district 1; outside every district and in
\* districts 2 and 7 it emits none
C24_District1Only ==
    Audited => (HasDistrict1Protocol <=> context.district = 1)

\* the distance of the site to station i, cm
StationCm(i) ==
    getDistance(building.latitude, building.longitude,
                UBAHN_STATIONS[i].lat, UBAHN_STATIONS[i].lng)

\* the first station, in the order the lines are declared, among those
\* nearest to the site
FirstNearestStation ==
    CHOOSE i \in DOMAIN UBAHN_STATIONS :
        /\ StationCm(i) = NearestStationCm
        /\ \A k \in DOMAIN UBAHN_STATIONS : StationCm(k) = NearestStationCm => i <= k

\* C25: the nearestLine of SubsurfaceAudit is a station of minimum distance
\* among the stations of all lines, on a tie the one of the line declared
\* first, and nearestDistance is that minimum distance rounded
C25_NearestIsMinimum ==
    Audited =>
        /\ audits.subsurface.nearestLine.name = UBAHN_STATIONS[FirstNearestStation].line
        /\ audits.subsurface.nearestLine.station = UBAHN_STATIONS[FirstNearestStation].station
        /\ audits.subsurface.nearestLine.tunnelDepth
               = UBAHN_STATIONS[FirstNearestStation].tunnelDepth
        /\ audits.subsurface.nearestDistance = RoundM(NearestStationCm)

\* C26: whenever the status is 'HIGH - Ready for Submission', the unioned
\* constraint list holds no critical and no blocking constraint, and keyRisk
\* is 'No critical constraints'
C26_HighHasNoRisk ==
    (Audited /\ result.status = StatusHigh) =>
        /\ \A i \in DOMAIN result.constraints : ~IsRisk(result.constraints[i])
        /\ result.keyRisk = NoKeyRisk

\* the evaluator result audits[e] holds a blocking constraint
EmitsBlocking(e) ==
    \E i \in DOMAIN audits[e].constraints : audits[e].constraints[i].severity = "blocking"

\* C27: an evaluator that emits a blocking constraint returns passed = false,
\* and blocking constraints come from the four domain evaluators only; so a
\* REJECTED status has passedCount <= 4, and passedCount = 5 is never REJECTED
C27_BlockingFails ==
    Audited =>
        /\ \A e \in MainDomains : EmitsBlocking(e) => ~audits[e].passed
        /\ AnyBlocking => \E e \in MainDomains : EmitsBlocking(e)
        /\ result.status = StatusRejected => result.passedCount <= 4
        /\ result.passedCount = 5 => result.status # StatusRejected

\* a rejection by one evaluator alone: the other four domains passed
C27_Witness ==
    /\ Audited
    /\ result.status = StatusRejected
    /\ result.passedCount = 4
    /\ Cardinality({ e \in MainDomains : EmitsBlocking(e) }) = 1

\* clearResults ran and no runSpotAudit call has started since: the context
\* of the last audit is null, as only clearResults leaves it once a call has
\* started
ClearedSinceLastStart == lastAuditContext = NoContext

\* C28: after clearResults, results stays null until a new runSpotAudit call
\* starts; a call in flight when clearResults ran never stores its result
C28_ClearedStaysNull ==
    ClearedSinceLastStart => result = NoResult

\* the fields of buildingConfig
ConfiguredFields == {"height", "floors", "footprint", "material"}

\* C29: whenever no runSpotAudit call is in flight and results is a success
\* object, results.building has the height, floors, footprint and material of
\* the current buildingConfig (results of a call that passed a height of its
\* own, here NaN, are left out)
C29_ResultFollowsConfig ==
    (runs = << >> /\ result # NoResult /\ result.success /\ ~result.building.heightNaN) =>
        \A f \in ConfiguredFields : result.building[f] = buildingConfig[f]

\* C30: isLoading is true while a runSpotAudit call has started and not yet
\* stored its result; and when isLoading is false and results is a success
\* object, its district and its building's location are those of the call
\* started last
C30_LoadingCoversRuns ==
    /\ runs # << >> => isLoading
    /\ (~isLoading /\ result # NoResult /\ result.success /\ lastAuditContext # NoContext) =>
           /\ result.district = lastAuditContext.district
           /\ result.building.latitude = lastAuditContext.latitude
           /\ result.building.longitude = lastAuditContext.longitude
====
